---------------------------- MODULE Spec2Model ----------------------------
(***************************************************************************)
(* Lyrics-snippet identification (src/src/run_agent.py) and the           *)
(* transcription of audio folders (src/src/whisper_song.py).               *)
(*                                                                         *)
(* The specifications of this module:                                      *)
(*   Spec / SpecTool  the pipeline search_lyrics_pages ->                  *)
(*                    find_song_from_snippet -> search_song_by_lyrics      *)
(*   SpecExtract      extract_lyrics_from_html on bounded documents        *)
(*   SpecNormalize    normalize_text on bounded strings                    *)
(*   SpecTitle        infer_title_artist on bounded page titles            *)
(*   SpecTranscribe   transcribe_folder, then read_transcripts_from_dir    *)
(*                                                                         *)
(* Optional values (Python's None) are sequences of length 0 or 1.         *)
(***************************************************************************)
EXTENDS Integers, Sequences, FiniteSets, TLC

VARIABLES
    pc,          \* position of the pipeline
    backend_up,  \* the search backend answers this call
    error,       \* the exception that reached the tool's caller, if any
    stream,      \* raw hits the search provider yields for this call
    max_pages,   \* the max_pages / max_results argument
    pages,       \* value returned by search_lyrics_pages
    idx,         \* index of the page the for loop is at
    candidates,  \* the list being accumulated, in discovery order
    results,     \* value returned by find_song_from_snippet
    plog,        \* per page, in order: what fetch and extract yielded
    unslept,     \* a fetch has happened and no sleep since
    output,      \* value returned by search_song_by_lyrics
    xpc, xdoc, xout,      \* extractor: position, document, result
    npc, nin, nout, nout2, \* normalizer: position, input, outputs
    tpc, tin, tout,       \* title inference: position, title, result
    wpc,         \* position of transcribe_folder and of the read-back
    folder,      \* names of the files in the audio folder
    out_dir0,    \* the files of the output directory before the run
    files,       \* the list built at line 12 of whisper_song.py
    widx,        \* index of the file the for loop is at
    wlog,        \* per file, in order: what transcribing and writing did
    out_dir,     \* the files of the output directory
    transcripts  \* value returned by read_transcripts_from_dir

vars == <<pc, backend_up, error, stream, max_pages, pages, idx, candidates,
          results, plog, unslept, output, xpc, xdoc, xout,
          npc, nin, nout, nout2, tpc, tin, tout,
          wpc, folder, out_dir0, files, widx, wlog, out_dir, transcripts>>

orchVars == <<pc, backend_up, error, stream, max_pages, pages, idx, candidates,
              results, plog, unslept, output>>
extractVars == <<xpc, xdoc, xout>>
normVars == <<npc, nin, nout, nout2>>
titleVars == <<tpc, tin, tout>>
whisperVars == <<wpc, folder, out_dir0, files, widx, wlog, out_dir,
                 transcripts>>

----------------------------------------------------------------------------
(* Bounds of the model *)

MaxHits == 3
MaxPages == 3
MaxToolPages == 6
MaxNodes == 3
MaxStrLen == 3
MaxTitleParts == 3
MaxFiles == 3

----------------------------------------------------------------------------
(* Generic helpers *)

None == <<>>
Some(x) == <<x>>

SeqsUpTo(S, n) == UNION {[1..k -> S] : k \in 0..n}

Min(a, b) == IF a <= b THEN a ELSE b

Reverse(s) == [k \in 1..Len(s) |-> s[Len(s) + 1 - k]]

----------------------------------------------------------------------------
(* normalize_text.  A string is a sequence of characters; the alphabet     *)
(* holds one representative of every class the function distinguishes:     *)
(* upper and lower letters, a digit, two whitespace characters, a          *)
(* punctuation mark, a curly quote and the three kept marks.               *)

Alphabet == {"A", "a", "7", " ", "TAB", "!", "RSQUO", "-", "&", "'"}

IsSpace(c) == c \in {" ", "TAB"}

\* the character class [a-z0-9\s\-\'&] of the second substitution
IsKept(c) == c \in {"a", "7", " ", "TAB", "-", "'", "&"}

\* str.lower, one character
LowerChar(c) == IF c = "A" THEN "a" ELSE c

\* re.sub(r"[‘’“”]", "'", t)
SubQuotes(t) == [k \in 1..Len(t) |-> IF t[k] = "RSQUO" THEN "'" ELSE t[k]]

\* re.sub(r"[^a-z0-9\s\-\'&]", " ", t)
SubPunct(t) == [k \in 1..Len(t) |-> IF IsKept(t[k]) THEN t[k] ELSE " "]

\* re.sub(r"\s+", " ", t): every maximal whitespace run becomes one space
RECURSIVE CollapseSpaces(_)
CollapseSpaces(t) ==
    IF t = <<>> THEN <<>>
    ELSE IF IsSpace(Head(t))
         THEN IF Len(t) >= 2 /\ IsSpace(t[2])
              THEN CollapseSpaces(Tail(t))
              ELSE <<" ">> \o CollapseSpaces(Tail(t))
         ELSE <<Head(t)>> \o CollapseSpaces(Tail(t))

\* str.strip: drop leading and trailing whitespace
RECURSIVE LStrip(_)
LStrip(t) == IF t # <<>> /\ IsSpace(Head(t)) THEN LStrip(Tail(t)) ELSE t

Strip(t) == Reverse(LStrip(Reverse(LStrip(t))))

\* a plausible slip: whitespace collapsed before punctuation is blanked
normalize_text_collapse_first(text) ==
    SubPunct(Strip(CollapseSpaces(SubQuotes([k \in 1..Len(text) |-> LowerChar(text[k])]))))

normalize_text(text) ==
    LET t1 == [k \in 1..Len(text) |-> LowerChar(text[k])]
        t2 == SubQuotes(t1)
        t3 == SubPunct(t2)
    IN  Strip(CollapseSpaces(t3))

InitNormalize ==
    /\ npc = "input"
    /\ nin \in SeqsUpTo(Alphabet, MaxStrLen)
    /\ nout = <<>>
    /\ nout2 = <<>>

IdleNormalize ==
    /\ npc = "idle"
    /\ nin = <<>>
    /\ nout = <<>>
    /\ nout2 = <<>>

\* one call of normalize_text on the input
NormalizeOnce ==
    /\ npc = "input"
    /\ nout' = normalize_text(nin)
    /\ npc' = "once"
    /\ UNCHANGED <<nin, nout2>>
    /\ UNCHANGED <<orchVars, extractVars, titleVars, whisperVars>>

\* a second call, on the first call's result
NormalizeTwice ==
    /\ npc = "once"
    /\ nout2' = normalize_text(nout)
    /\ npc' = "twice"
    /\ UNCHANGED <<nin, nout>>
    /\ UNCHANGED <<orchVars, extractVars, titleVars, whisperVars>>

NextNormalize == NormalizeOnce \/ NormalizeTwice

----------------------------------------------------------------------------
(* extract_lyrics_from_html.                                               *)
(*                                                                         *)
(* A text is a sequence of tokens: a run of n one-letter words separated   *)
(* by single spaces, a structural label ("chorus:"), a space, a newline.   *)
(* Adjacent non-blank tokens are glued into one word, as the characters    *)
(* would be.  A document is the sequence of its elements in document       *)
(* order; an element has a tag saying which selectors match it and the     *)
(* text get_text("\n", strip=True) gives for it.                           *)

WordFloor == 20
LabelLen == 7

W(n) == [t |-> "w", n |-> n]
Sp == [t |-> "sp", n |-> 0]
Nl == [t |-> "nl", n |-> 0]
Lbl == [t |-> "label", n |-> 0]

IsBlank(tok) == tok.t \in {"sp", "nl"}

\* len(text.split())
RECURSIVE WordCountFrom(_, _)
WordCountFrom(text, k) ==
    IF k > Len(text) THEN 0
    ELSE LET tok == text[k]
             own == IF IsBlank(tok) THEN 0
                    ELSE IF tok.t = "w" THEN tok.n ELSE 1
             glued == IF ~IsBlank(tok) /\ k > 1 /\ ~IsBlank(text[k - 1])
                      THEN 1 ELSE 0
         IN  own - glued + WordCountFrom(text, k + 1)

WordCount(text) == WordCountFrom(text, 1)

\* len(text), in characters
RECURSIVE CharLen(_)
CharLen(text) ==
    IF text = <<>> THEN 0
    ELSE LET tok == Head(text)
             own == IF tok.t = "w" THEN 2 * tok.n - 1
                    ELSE IF tok.t = "label" THEN LabelLen ELSE 1
         IN  own + CharLen(Tail(text))

\* first index >= k of a token that is not blank (Len + 1 when none)
RECURSIVE SkipBlanks(_, _)
SkipBlanks(text, k) ==
    IF k <= Len(text) /\ IsBlank(text[k]) THEN SkipBlanks(text, k + 1) ELSE k

\* re.sub(r"\b(chorus|verse|bridge|intro|outro):\s*", "", best, flags=re.I)
\* \b holds before a label unless a word character precedes it
RECURSIVE StripLabelsFrom(_, _)
StripLabelsFrom(text, k) ==
    IF k > Len(text) THEN <<>>
    ELSE IF text[k].t = "label" /\ (k = 1 \/ text[k - 1].t # "w")
         THEN StripLabelsFrom(text, SkipBlanks(text, k + 1))
         ELSE <<text[k]>> \o StripLabelsFrom(text, k + 1)

StripLabels(text) == StripLabelsFrom(text, 1)

\* first index >= k of a token that is not a newline (Len + 1 when none)
RECURSIVE SkipNewlines(_, _)
SkipNewlines(text, k) ==
    IF k <= Len(text) /\ text[k].t = "nl" THEN SkipNewlines(text, k + 1) ELSE k

\* re.sub(r"\n{3,}", "\n\n", best)
RECURSIVE CollapseNewlinesFrom(_, _)
CollapseNewlinesFrom(text, k) ==
    IF k > Len(text) THEN <<>>
    ELSE IF text[k].t = "nl"
         THEN LET j == SkipNewlines(text, k)
              IN  (IF j - k >= 3 THEN <<Nl, Nl>> ELSE SubSeq(text, k, j - 1))
                  \o CollapseNewlinesFrom(text, j)
         ELSE <<text[k]>> \o CollapseNewlinesFrom(text, k + 1)

CollapseNewlines(text) == CollapseNewlinesFrom(text, 1)

\* best.strip()
RECURSIVE LStripText(_)
LStripText(text) ==
    IF text # <<>> /\ IsBlank(Head(text)) THEN LStripText(Tail(text)) ELSE text

StripText(text) == Reverse(LStripText(Reverse(LStripText(text))))

\* lines 104-108: the post-processing of the chosen block
PostProcess(best) == StripText(CollapseNewlines(StripLabels(best)))

\* max(candidates, key=lambda s: len(s)): the first of the longest
RECURSIVE LongestFrom(_, _, _)
LongestFrom(cands, k, best) ==
    IF k > Len(cands) THEN best
    ELSE LongestFrom(cands, k + 1,
                     IF CharLen(cands[k]) > CharLen(best) THEN cands[k] ELSE best)

Longest(cands) == LongestFrom(cands, 2, cands[1])

Tags == {"lyrics_container", "article", "lyrics_class", "main", "p"}

\* the texts of the elements of doc carrying tag, in document order
TextsOf(doc, tag) ==
    LET hit == SelectSeq(doc, LAMBDA e : e.tag = tag)
    IN  [k \in 1..Len(hit) |-> hit[k].text]

\* "\n".join(texts)
RECURSIVE JoinNl(_)
JoinNl(texts) ==
    IF texts = <<>> THEN <<>>
    ELSE IF Len(texts) = 1 THEN texts[1]
    ELSE texts[1] \o <<Nl>> \o JoinNl(Tail(texts))

\* lines 64-67: soup.select("[data-lyrics-container='true']"), kept when
\* the text is not empty
LayerContainers(doc) ==
    SelectSeq(TextsOf(doc, "lyrics_container"), LAMBDA txt : txt # <<>>)

\* lines 71-75: soup.find("article"), the first one, kept above the floor
LayerArticle(doc) ==
    LET arts == TextsOf(doc, "article")
    IN  IF arts # <<>> /\ arts[1] # <<>> /\ WordCount(arts[1]) > WordFloor
        THEN <<arts[1]>> ELSE <<>>

\* lines 79-90: the six selectors in order; an element of class "lyrics"
\* is selected by ".lyrics" and again by "[class*='lyric']", a main
\* element by "main"; ".lyric", "#lyrics" and "[id*='lyric']" select none
\* of the modelled elements
LayerSelectors(doc) ==
    LET nodes == TextsOf(doc, "lyrics_class") \o TextsOf(doc, "lyrics_class")
                 \o TextsOf(doc, "main")
    IN  SelectSeq(nodes, LAMBDA txt : txt # <<>> /\ WordCount(txt) > WordFloor)

\* lines 94-97: all paragraphs joined by newlines
LayerParagraphs(doc) ==
    LET text == JoinNl(TextsOf(doc, "p"))
    IN  IF WordCount(text) > WordFloor THEN <<text>> ELSE <<>>

\* the `if not candidates` guards left out: every layer adds its blocks
ExtractCandidatesAllLayers(doc) ==
    LayerContainers(doc) \o LayerArticle(doc) \o LayerSelectors(doc)
        \o LayerParagraphs(doc)

\* the candidates list at line 99
ExtractCandidates(doc) ==
    IF LayerContainers(doc) # <<>> THEN LayerContainers(doc)
    ELSE IF LayerArticle(doc) # <<>> THEN LayerArticle(doc)
    ELSE IF LayerSelectors(doc) # <<>> THEN LayerSelectors(doc)
    ELSE LayerParagraphs(doc)

extract_lyrics_from_html(doc) ==
    LET cands == ExtractCandidates(doc)
    IN  IF cands = <<>> THEN None ELSE Some(PostProcess(Longest(cands)))

\* the element texts the bounded documents are built from
TextPool ==
    { <<>>,
      <<W(1)>>,
      <<W(WordFloor)>>,
      <<W(WordFloor + 1)>>,
      <<Lbl, Nl, W(WordFloor)>>,
      <<W(WordFloor), Nl, Nl, Nl, W(1)>> }

Elements == [tag : Tags, text : TextPool]

InitExtract ==
    /\ xpc = "input"
    /\ xdoc \in SeqsUpTo(Elements, MaxNodes)
    /\ xout = None

IdleExtract ==
    /\ xpc = "idle"
    /\ xdoc = <<>>
    /\ xout = None

\* one call of extract_lyrics_from_html on the document
Extract ==
    /\ xpc = "input"
    /\ xout' = extract_lyrics_from_html(xdoc)
    /\ xpc' = "done"
    /\ UNCHANGED xdoc
    /\ UNCHANGED <<orchVars, normVars, titleVars, whisperVars>>

NextExtract == Extract

----------------------------------------------------------------------------
(* infer_title_artist.                                                     *)
(*                                                                         *)
(* A title is a sequence of tokens: a word (a string of word characters)   *)
(* or one of the characters the regular expressions look at.  Adjacent     *)
(* word tokens are glued, as the characters would be.                      *)

TitleMarks == {" ", "-", ":", "|", "(", ")", "."}

IsWordTok(tok) == tok \notin TitleMarks

\* the token contains "lyrics", in any letter case
HasLyrics(tok) == tok \in {"lyrics", "Lyrics", "LYRICS"}

\* first index of the run of spaces that ends right before index k
RECURSIVE SpaceRunStart(_, _)
SpaceRunStart(t, k) ==
    IF k > 1 /\ t[k - 1] = " " THEN SpaceRunStart(t, k - 1) ELSE k

\* first index >= k of a token that is not a space (Len + 1 when none)
RECURSIVE SkipSpaces(_, _)
SkipSpaces(t, k) ==
    IF k <= Len(t) /\ t[k] = " " THEN SkipSpaces(t, k + 1) ELSE k

RECURSIVE LStripTitle(_)
LStripTitle(t) ==
    IF t # <<>> /\ Head(t) = " " THEN LStripTitle(Tail(t)) ELSE t

\* str.strip on a title
StripTitle(t) == Reverse(LStripTitle(Reverse(LStripTitle(t))))

\* re.sub(r"\s*\|.*$", "", t)
CutPipe(t) ==
    LET bars == {k \in 1..Len(t) : t[k] = "|"}
    IN  IF bars = {} THEN t
        ELSE LET k == CHOOSE b \in bars : \A c \in bars : b <= c
             IN  SubSeq(t, 1, SpaceRunStart(t, k) - 1)

\* re.sub(r"\s*\(.*lyrics.*\)$", "", t, flags=re.I)
CutParenLyrics(t) ==
    LET opens == {k \in 1..Len(t) :
                     /\ t[k] = "("
                     /\ \E j \in (k + 1)..(Len(t) - 1) : HasLyrics(t[j])}
    IN  IF t = <<>> \/ t[Len(t)] # ")" \/ opens = {} THEN t
        ELSE LET k == CHOOSE b \in opens : \A c \in opens : b <= c
             IN  SubSeq(t, 1, SpaceRunStart(t, k) - 1)

\* re.sub(r"\s*lyrics\s*$", "", t, flags=re.I)
CutTrailingLyrics(t) ==
    LET e == Len(StripTitle(t)) + (Len(t) - Len(LStripTitle(t)))
    IN  IF StripTitle(t) # <<>> /\ HasLyrics(t[e])
        THEN SubSeq(t, 1, SpaceRunStart(t, e) - 1)
        ELSE t

\* re.split(r"\s+-\s+|:\s+", t): the pieces between separators
RECURSIVE SplitFrom(_, _, _)
SplitFrom(t, k, cur) ==
    IF k > Len(t) THEN <<cur>>
    ELSE LET j == SkipSpaces(t, k)
         IN  IF /\ t[k] = " "
                /\ j + 1 <= Len(t)
                /\ t[j] = "-"
                /\ t[j + 1] = " "
             THEN <<cur>> \o SplitFrom(t, SkipSpaces(t, j + 1), <<>>)
             ELSE IF t[k] = ":" /\ k + 1 <= Len(t) /\ t[k + 1] = " "
             THEN <<cur>> \o SplitFrom(t, SkipSpaces(t, k + 1), <<>>)
             ELSE SplitFrom(t, k + 1, Append(cur, t[k]))

\* line 152: [p.strip() for p in re.split(...) if p.strip()]
TitleParts(t) ==
    LET raw == SplitFrom(t, 1, <<>>)
        stripped == [k \in 1..Len(raw) |-> StripTitle(raw[k])]
    IN  SelectSeq(stripped, LAMBDA q : q # <<>>)

\* re.search(r"\b(feat\.|ft\.|with)\b", right, re.I): the \b after the dot
\* of "feat." and "ft." needs a word character right after the dot
HasFeatureMarker(right) ==
    \E k \in 1..Len(right) :
        /\ k = 1 \/ ~IsWordTok(right[k - 1])
        /\ \/ /\ right[k] \in {"with", "With", "WITH"}
              /\ k = Len(right) \/ ~IsWordTok(right[k + 1])
           \/ /\ right[k] \in {"feat", "Feat", "FEAT", "ft", "Ft", "FT"}
              /\ k + 2 <= Len(right)
              /\ right[k + 1] = "."
              /\ IsWordTok(right[k + 2])

\* re.search(r"lyrics", left, re.I)
MentionsLyrics(left) == \E k \in 1..Len(left) : HasLyrics(left[k])

\* returns <<title, artist>>, the artist optional
infer_title_artist(title_text) ==
    LET t == CutTrailingLyrics(CutParenLyrics(CutPipe(title_text)))
        parts == TitleParts(t)
    IN  IF Len(parts) >= 2
        THEN IF HasFeatureMarker(parts[2]) THEN <<parts[1], None>>
             ELSE IF ~MentionsLyrics(parts[1])
                  THEN <<parts[2], Some(parts[1])>>
                  ELSE <<parts[1], Some(parts[2])>>
        ELSE <<StripTitle(t), None>>

\* the pieces page titles are made of: names, a name followed by
\* "Lyrics", and feature credits with and without a space after the dot
PartPool ==
    { <<"Song">>,
      <<"Artist">>,
      <<"Artist", " ", "Lyrics">>,
      <<"feat", ".", " ", "Guest">>,
      <<"Feat", ".", "Guest">>,
      <<"ft", ".">>,
      <<"with", " ", "Guest">> }

\* what a site appends to the title of a lyrics page
Suffixes == { <<>>, <<" ", "Lyrics">>, <<" ", "|", " ", "Genius">> }

\* the pieces written with " - " between them
RECURSIVE JoinDash(_)
JoinDash(ps) ==
    IF ps = <<>> THEN <<>>
    ELSE IF Len(ps) = 1 THEN ps[1]
    ELSE ps[1] \o <<" ", "-", " ">> \o JoinDash(Tail(ps))

TitleInputs ==
    {JoinDash(ps) \o suf : ps \in SeqsUpTo(PartPool, MaxTitleParts),
                           suf \in Suffixes}

InitTitle ==
    /\ tpc = "input"
    /\ tin \in TitleInputs
    /\ tout = <<>>

IdleTitle ==
    /\ tpc = "idle"
    /\ tin = <<>>
    /\ tout = <<>>

\* one call of infer_title_artist on the title
InferTitle ==
    /\ tpc = "input"
    /\ tout' = infer_title_artist(tin)
    /\ tpc' = "done"
    /\ UNCHANGED tin
    /\ UNCHANGED <<orchVars, extractVars, normVars, whisperVars>>

NextTitle == InferTitle

----------------------------------------------------------------------------
(* search_lyrics_pages.  A URL is a sequence of tokens; a host pattern     *)
(* such as genius\.com is the token sequence it matches literally.         *)

LYRICS_HOST_PATTERNS ==
    << <<"genius", ".", "com">>,
       <<"azlyrics", ".", "com">>,
       <<"lyrics", ".", "com">>,
       <<"lyricfind", ".", "com">>,
       <<"songmeanings", ".", "com">>,
       <<"songfacts", ".", "com">>,
       <<"musixmatch", ".", "com">> >>

\* re.search(p, url): the pattern occurs somewhere in the url
ReSearch(p, url) ==
    \E k \in 1..(Len(url) - Len(p) + 1) : SubSeq(url, k, k + Len(p) - 1) = p

\* any(re.search(p, url) for p in LYRICS_HOST_PATTERNS)
IsLyricsHost(url) ==
    \E n \in 1..Len(LYRICS_HOST_PATTERNS) : ReSearch(LYRICS_HOST_PATTERNS[n], url)

UrlGenius == <<"https://", "genius", ".", "com", "/song">>
UrlAz == <<"https://www.", "azlyrics", ".", "com", "/song">>
UrlBlog == <<"https://", "blog", ".", "org", "/genius">>

TitleGenius ==
    <<"Artist", " ", "-", " ", "Song", " ", "Lyrics", " ", "|", " ", "Genius">>
TitleAz == <<"Song", " ", "Lyrics">>

\* the raw hits a provider may yield: the address under "href", under
\* "url", or under neither; an allow-listed host or another one
Hits ==
    { [href |-> UrlGenius, url |-> <<>>, title |-> TitleGenius],
      [href |-> UrlAz, url |-> <<>>, title |-> TitleAz],
      [href |-> <<>>, url |-> UrlAz, title |-> TitleAz],
      [href |-> UrlBlog, url |-> <<>>, title |-> TitleAz],
      [href |-> <<>>, url |-> <<>>, title |-> TitleAz] }

\* r.get("href") or r.get("url") or ""
HitUrl(r) == IF r.href # <<>> THEN r.href ELSE r.url

\* lines 124-132, the loop over the hits from hit k on with the results
\* accumulated so far
RECURSIVE SearchLoop(_, _, _, _)
SearchLoop(hits, k, acc, max_results) ==
    IF k > Len(hits) THEN acc
    ELSE LET r == hits[k]
             url == HitUrl(r)
         IN  IF url = <<>>
             THEN SearchLoop(hits, k + 1, acc, max_results)
             ELSE LET acc2 == IF IsLyricsHost(url)
                              THEN Append(acc, [title |-> r.title, url |-> url])
                              ELSE acc
                  IN  IF Len(acc2) >= max_results
                      THEN acc2
                      ELSE SearchLoop(hits, k + 1, acc2, max_results)

search_lyrics_pages(hits, max_results) == SearchLoop(hits, 1, <<>>, max_results)

----------------------------------------------------------------------------
(* score_match, the fragment locator and the tool's rounding.  A ratio of  *)
(* the fuzzy matcher is in thousandths (0 .. 100000), a score in           *)
(* ten-thousandths, a rounded score in hundredths.                         *)

TokenSetWeight == 6
PartialWeight == 4
FragmentFloor == 50
AlternativesEnd == 5

\* line 142: 0.6 * r1 + 0.4 * r2
score_match(r1, r2) == TokenSetWeight * r1 + PartialWeight * r2

\* round(score, 2): to the nearest hundredth, a tie to the even one
Round2(x) ==
    LET q == x \div 100
        r == x % 100
    IN  IF r > 50 \/ (r = 50 /\ q % 2 = 1) THEN q + 1 ELSE q

\* what the fuzzy matcher may answer for one page: the token-set ratio,
\* the partial ratio, and the best line's partial ratio in whole points
FuzzOutcomes ==
    { [r1 |-> 100000, r2 |-> 100000, line |-> 100],
      [r1 |-> 66667, r2 |-> 50000, line |-> 51],
      [r1 |-> 33333, r2 |-> 25000, line |-> 50] }

\* [ln.strip() for ln in lyrics.splitlines() if ln.strip()]
RECURSIVE SplitLines(_, _, _)
SplitLines(text, k, cur) ==
    IF k > Len(text) THEN <<cur>>
    ELSE IF text[k].t = "nl"
         THEN <<cur>> \o SplitLines(text, k + 1, <<>>)
         ELSE SplitLines(text, k + 1, Append(cur, text[k]))

Lines(text) ==
    LET raw == SplitLines(text, 1, <<>>)
        stripped == [k \in 1..Len(raw) |-> StripText(raw[k])]
    IN  SelectSeq(stripped, LAMBDA ln : ln # <<>>)

\* lines 183-191: the best line, shown when its ratio exceeds the floor
Fragment(match, mscore) ==
    IF match # <<>> /\ mscore > FragmentFloor THEN Some(match) ELSE None

----------------------------------------------------------------------------
(* find_song_from_snippet and search_song_by_lyrics *)

DocLyrics == <<[tag |-> "lyrics_container", text |-> <<W(WordFloor + 1)>>]>>
DocNoLyrics == <<[tag |-> "p", text |-> <<W(1)>>]>>
DocLabelOnly == <<[tag |-> "lyrics_container", text |-> <<Lbl>>]>>

\* the documents fetch_url may bring back
PageDocs == {DocLyrics, DocNoLyrics, DocLabelOnly}

\* Python truthiness of an optional string or text
Truthy(opt) == opt # None /\ opt[1] # <<>>

\* the pair unpacked in the wrong order: the title lands in url
SongCandidateSwapped(page, fz, match) ==
    LET ta == infer_title_artist(page.url)
    IN  [title |-> ta[1],
         artist |-> ta[2],
         url |-> page.title,
         lyrics_snippet |-> Fragment(match, fz.line),
         score |-> score_match(fz.r1, fz.r2)]

\* lines 193-199
SongCandidate(page, fz, match) ==
    LET ta == infer_title_artist(page.title)
    IN  [title |-> ta[1],
         artist |-> ta[2],
         url |-> page.url,
         lyrics_snippet |-> Fragment(match, fz.line),
         score |-> score_match(fz.r1, fz.r2)]

\* `break` written for `continue`: the loop ends at the first miss
AfterSkipBreak(i, n) == n + 1

\* the loop index after `continue`
AfterSkip(i, n) == i + 1

\* an ascending stable sort read backwards: equal scores come out reversed
RECURSIVE InsertByScoreUnstable(_, _)
InsertByScoreUnstable(sorted, c) ==
    IF sorted = <<>> THEN <<c>>
    ELSE IF Head(sorted).score > c.score
         THEN <<Head(sorted)>> \o InsertByScoreUnstable(Tail(sorted), c)
         ELSE <<c>> \o sorted

\* candidates.sort(key=lambda c: c.score, reverse=True): a stable sort,
\* so a candidate goes after every one whose score is not smaller
RECURSIVE InsertByScore(_, _)
InsertByScore(sorted, c) ==
    IF sorted = <<>> THEN <<c>>
    ELSE IF Head(sorted).score >= c.score
         THEN <<Head(sorted)>> \o InsertByScore(Tail(sorted), c)
         ELSE <<c>> \o sorted

RECURSIVE SortFrom(_, _, _)
SortFrom(cands, k, sorted) ==
    IF k > Len(cands) THEN sorted
    ELSE SortFrom(cands, k + 1, InsertByScore(sorted, cands[k]))

\* reverse=True left out: the lowest score first
SortByScoreAsc(cands) == Reverse(SortFrom(cands, 1, <<>>))

SortByScoreDesc(cands) == SortFrom(cands, 1, <<>>)

\* lines 228 and 232-238: one entry of the tool's answer
ToolEntry(c) ==
    [title |-> c.title,
     artist |-> c.artist,
     url |-> c.url,
     score |-> Round2(c.score),
     match |-> c.lyrics_snippet]

\* results[1:] for results[1:5]
AlternativesUncapped(res) == SubSeq(res, 2, Len(res))

\* results[1:5]
Alternatives(res) == SubSeq(res, 2, Min(Len(res), AlternativesEnd))

\* lines 223-240
search_song_by_lyrics(res) ==
    IF res = <<>>
    THEN [best |-> None, alternatives |-> <<>>]
    ELSE [best |-> Some(ToolEntry(res[1])),
          alternatives |-> [k \in 1..Len(Alternatives(res)) |->
                               ToolEntry(Alternatives(res)[k])]]

Streams == SeqsUpTo(Hits, MaxHits)

InitCommon ==
    /\ pc = "start"
    /\ backend_up \in BOOLEAN
    /\ error = None
    /\ pages = <<>>
    /\ idx = 1
    /\ candidates = <<>>
    /\ results = <<>>
    /\ plog = <<>>
    /\ unslept = FALSE
    /\ output = None

InitPipeline ==
    /\ InitCommon
    /\ stream \in Streams
    /\ max_pages \in 0..MaxPages

\* long calls: every hit is on an allow-listed host
InitTool ==
    /\ InitCommon
    /\ stream = [k \in 1..MaxToolPages |->
                    IF k % 2 = 1
                    THEN [href |-> UrlGenius, url |-> <<>>, title |-> TitleGenius]
                    ELSE [href |-> UrlAz, url |-> <<>>, title |-> TitleAz]]
    /\ max_pages \in 0..MaxToolPages

IdlePipeline ==
    /\ pc = "idle"
    /\ backend_up = TRUE
    /\ error = None
    /\ stream = <<>>
    /\ max_pages = 0
    /\ pages = <<>>
    /\ idx = 1
    /\ candidates = <<>>
    /\ results = <<>>
    /\ plog = <<>>
    /\ unslept = FALSE
    /\ output = None

\* line 170: the search returns its pages
SearchReturns ==
    /\ pc = "start"
    /\ backend_up
    /\ pages' = search_lyrics_pages(stream, max_pages)
    /\ pc' = "loop"
    /\ UNCHANGED <<backend_up, error, stream, max_pages, idx, candidates,
                   results, plog, unslept, output>>
    /\ UNCHANGED <<extractVars, normVars, titleVars, whisperVars>>

\* lines 123-124: the search backend raises; neither search_lyrics_pages
\* (no except clause), find_song_from_snippet (line 170) nor
\* search_song_by_lyrics (line 223) catches, so the call ends with the
\* exception and no return value
SearchRaises ==
    /\ pc = "start"
    /\ ~backend_up
    /\ error' = Some("search backend error")
    /\ pc' = "done"
    /\ UNCHANGED <<backend_up, stream, max_pages, pages, idx, candidates,
                   results, plog, unslept, output>>
    /\ UNCHANGED <<extractVars, normVars, titleVars, whisperVars>>

\* lines 174-176: fetch_url returns None
FetchMiss ==
    /\ pc = "loop"
    /\ idx <= Len(pages)
    /\ plog' = Append(plog, [url |-> pages[idx].url, html |-> FALSE, lyrics |-> FALSE])
    /\ unslept' = TRUE
    /\ idx' = AfterSkip(idx, Len(pages))
    /\ UNCHANGED <<backend_up, error, pc, stream, max_pages, pages, candidates, results, output>>
    /\ UNCHANGED <<extractVars, normVars, titleVars, whisperVars>>

\* lines 174-179: fetch_url returns a page, the extractor nothing usable
ExtractMiss ==
    /\ pc = "loop"
    /\ idx <= Len(pages)
    /\ \E doc \in PageDocs :
          /\ ~Truthy(extract_lyrics_from_html(doc))
          /\ plog' = Append(plog, [url |-> pages[idx].url, html |-> TRUE, lyrics |-> FALSE])
    /\ unslept' = TRUE
    /\ idx' = AfterSkip(idx, Len(pages))
    /\ UNCHANGED <<backend_up, error, pc, stream, max_pages, pages, candidates, results, output>>
    /\ UNCHANGED <<extractVars, normVars, titleVars, whisperVars>>

\* lines 174-199: fetch and extract succeed; the candidate is appended
Scored ==
    /\ pc = "loop"
    /\ idx <= Len(pages)
    /\ \E doc \in PageDocs, fz \in FuzzOutcomes :
          LET lyr == extract_lyrics_from_html(doc)
          IN  /\ Truthy(lyr)
              /\ \E match \in {Lines(lyr[1])[k] : k \in 1..Len(Lines(lyr[1]))} :
                    candidates' = Append(candidates, SongCandidate(pages[idx], fz, match))
              /\ plog' = Append(plog, [url |-> pages[idx].url, html |-> TRUE, lyrics |-> TRUE])
    /\ unslept' = TRUE
    /\ pc' = "sleep"
    /\ UNCHANGED <<backend_up, error, stream, max_pages, pages, idx, results, output>>
    /\ UNCHANGED <<extractVars, normVars, titleVars, whisperVars>>

\* line 200: time.sleep(sleep_sec), then the next page
Sleep ==
    /\ pc = "sleep"
    /\ unslept' = FALSE
    /\ idx' = idx + 1
    /\ pc' = "loop"
    /\ UNCHANGED <<backend_up, error, stream, max_pages, pages, candidates, results, plog, output>>
    /\ UNCHANGED <<extractVars, normVars, titleVars, whisperVars>>

\* lines 203-204: the loop is over; sort and return
SortAndReturn ==
    /\ pc = "loop"
    /\ idx > Len(pages)
    /\ results' = SortByScoreDesc(candidates)
    /\ pc' = "returned"
    /\ UNCHANGED <<backend_up, error, stream, max_pages, pages, idx, candidates, plog, unslept, output>>
    /\ UNCHANGED <<extractVars, normVars, titleVars, whisperVars>>

\* lines 224-240: the tool wraps the results
ToolReturns ==
    /\ pc = "returned"
    /\ output' = Some(search_song_by_lyrics(results))
    /\ pc' = "done"
    /\ UNCHANGED <<backend_up, error, stream, max_pages, pages, idx, candidates, results, plog, unslept>>
    /\ UNCHANGED <<extractVars, normVars, titleVars, whisperVars>>

Next ==
    \/ SearchReturns
    \/ SearchRaises
    \/ FetchMiss
    \/ ExtractMiss
    \/ Scored
    \/ Sleep
    \/ SortAndReturn
    \/ ToolReturns

----------------------------------------------------------------------------
(* whisper_song.transcribe_folder and read_transcripts_from_dir.            *)
(*                                                                         *)
(* A file name is the sequence of the pieces between its dots: "a.b.mp3"   *)
(* is <<"a", "b", "mp3">>.  A directory is a set of files, at most one per *)
(* name; a file's content is <<>> when empty, else a one-element sequence. *)

\* str.lower on a piece of a name
LowerPiece(p) == IF p = "MP3" THEN "mp3" ELSE p

\* name.lower().endswith("." + ext)
EndsWith(name, ext) ==
    Len(name) >= 2 /\ LowerPiece(name[Len(name)]) = ext

NamePool ==
    { <<"a", "mp3">>, <<"b", "mp3">>, <<"b", "MP3">>,
      <<"a", "b", "mp3">>, <<"a", "c", "mp3">>, <<"notes", "txt">> }

\* what an earlier run of the orchestrator left in the output directory
OldRun ==
    { [name |-> <<"a", "txt">>, content |-> << <<"old">> >>],
      [name |-> <<"search_results", "json">>, content |-> << <<"old">> >>] }

\* line 12: the .mp3 files of the folder
Mp3Files(dir) == {f \in dir : EndsWith(f, "mp3")}

\* os.listdir returns the names in arbitrary order
Listings(S) ==
    {l \in [1..Cardinality(S) -> S] :
        \A i, j \in 1..Cardinality(S) : i # j => l[i] # l[j]}

\* line 24: f.split('.')[0] + ".txt"
TranscriptName(f) == <<f[1], "txt">>

\* result["text"].strip() of a file with speech in it
Speech(f) == <<f>>

\* open(out_path, "w") followed by out.write(content)
WriteFile(dir, name, content) ==
    {d \in dir : d.name # name} \cup {[name |-> name, content |-> content]}

ContentOf(dir, name) == (CHOOSE d \in dir : d.name = name).content

\* sorted() of the names an output directory can hold
DirOrder == << <<"a", "txt">>, <<"b", "txt">>, <<"search_results", "json">> >>

\* orchestrate_transcribe_and_search.py lines 14-29
read_transcripts_from_dir(dir) ==
    LET listing == SelectSeq(DirOrder, LAMBDA n : \E d \in dir : d.name = n)
        kept == SelectSeq(listing, LAMBDA n :
                    EndsWith(n, "txt") /\ ContentOf(dir, n) # <<>>)
    IN  [k \in 1..Len(kept) |-> <<kept[k], ContentOf(dir, kept[k])>>]

\* an exception inside the try block ends the function
AfterExceptionRaise == "raised"

\* lines 29-30: the except clause prints and the loop goes on
AfterException == "loop"

InitWhisper ==
    /\ wpc = "start"
    /\ folder \in {S \in SUBSET NamePool : Cardinality(S) <= MaxFiles}
    /\ out_dir0 \in {{}, OldRun}
    /\ out_dir = out_dir0
    /\ files = <<>>
    /\ widx = 1
    /\ wlog = <<>>
    /\ transcripts = <<>>

\* lines 13-15: no .mp3 file in the folder
NoFiles ==
    /\ wpc = "start"
    /\ Mp3Files(folder) = {}
    /\ wpc' = "returned"
    /\ UNCHANGED <<folder, out_dir0, files, widx, wlog, out_dir, transcripts>>
    /\ UNCHANGED <<orchVars, extractVars, normVars, titleVars>>

\* line 12
ListFiles ==
    /\ wpc = "start"
    /\ Mp3Files(folder) # {}
    /\ files' \in Listings(Mp3Files(folder))
    /\ wpc' = "loop"
    /\ UNCHANGED <<folder, out_dir0, widx, wlog, out_dir, transcripts>>
    /\ UNCHANGED <<orchVars, extractVars, normVars, titleVars>>

\* lines 21-28: the file is transcribed and its transcript written
Transcribed ==
    /\ wpc = "loop"
    /\ widx <= Len(files)
    /\ \E text \in {<<>>, Speech(files[widx])} :
          /\ out_dir' = WriteFile(out_dir, TranscriptName(files[widx]), text)
          /\ wlog' = Append(wlog, [file |-> files[widx], outcome |-> "ok",
                                   text |-> text])
    /\ widx' = widx + 1
    /\ UNCHANGED <<wpc, folder, out_dir0, files, transcripts>>
    /\ UNCHANGED <<orchVars, extractVars, normVars, titleVars>>

\* line 21 raises
TranscribeRaises ==
    /\ wpc = "loop"
    /\ widx <= Len(files)
    /\ wlog' = Append(wlog, [file |-> files[widx],
                             outcome |-> "transcribe_raised", text |-> <<>>])
    /\ wpc' = AfterException
    /\ widx' = widx + 1
    /\ UNCHANGED <<folder, out_dir0, files, out_dir, transcripts>>
    /\ UNCHANGED <<orchVars, extractVars, normVars, titleVars>>

\* line 25 raises: the file is not opened
OpenRaises ==
    /\ wpc = "loop"
    /\ widx <= Len(files)
    /\ wlog' = Append(wlog, [file |-> files[widx],
                             outcome |-> "open_raised", text |-> <<>>])
    /\ wpc' = AfterException
    /\ widx' = widx + 1
    /\ UNCHANGED <<folder, out_dir0, files, out_dir, transcripts>>
    /\ UNCHANGED <<orchVars, extractVars, normVars, titleVars>>

\* line 26 raises: the file was opened for writing, so it is left empty
WriteRaises ==
    /\ wpc = "loop"
    /\ widx <= Len(files)
    /\ out_dir' = WriteFile(out_dir, TranscriptName(files[widx]), <<>>)
    /\ wlog' = Append(wlog, [file |-> files[widx],
                             outcome |-> "write_raised", text |-> <<>>])
    /\ wpc' = AfterException
    /\ widx' = widx + 1
    /\ UNCHANGED <<folder, out_dir0, files, transcripts>>
    /\ UNCHANGED <<orchVars, extractVars, normVars, titleVars>>

\* line 17: the list is exhausted
LoopEnds ==
    /\ wpc = "loop"
    /\ widx > Len(files)
    /\ wpc' = "returned"
    /\ UNCHANGED <<folder, out_dir0, files, widx, wlog, out_dir, transcripts>>
    /\ UNCHANGED <<orchVars, extractVars, normVars, titleVars>>

\* the orchestrator reads the output directory back
ReadTranscripts ==
    /\ wpc = "returned"
    /\ transcripts' = read_transcripts_from_dir(out_dir)
    /\ wpc' = "read"
    /\ UNCHANGED <<folder, out_dir0, files, widx, wlog, out_dir>>
    /\ UNCHANGED <<orchVars, extractVars, normVars, titleVars>>

NextTranscribe ==
    \/ NoFiles
    \/ ListFiles
    \/ Transcribed
    \/ TranscribeRaises
    \/ OpenRaises
    \/ WriteRaises
    \/ LoopEnds
    \/ ReadTranscripts

IdleWhisper ==
    /\ wpc = "idle"
    /\ folder = {}
    /\ out_dir0 = {}
    /\ files = <<>>
    /\ widx = 1
    /\ wlog = <<>>
    /\ out_dir = {}
    /\ transcripts = <<>>

----------------------------------------------------------------------------
(* Specifications *)

Init ==
    InitPipeline /\ IdleExtract /\ IdleNormalize /\ IdleTitle /\ IdleWhisper

Spec == Init /\ [][Next]_vars

ToolInit ==
    InitTool /\ IdleExtract /\ IdleNormalize /\ IdleTitle /\ IdleWhisper

SpecTool == ToolInit /\ [][Next]_vars

ExtractInit ==
    IdlePipeline /\ InitExtract /\ IdleNormalize /\ IdleTitle /\ IdleWhisper

SpecExtract == ExtractInit /\ [][NextExtract]_vars

NormalizeInit ==
    IdlePipeline /\ IdleExtract /\ InitNormalize /\ IdleTitle /\ IdleWhisper

SpecNormalize == NormalizeInit /\ [][NextNormalize]_vars

TitleInit ==
    IdlePipeline /\ IdleExtract /\ IdleNormalize /\ InitTitle /\ IdleWhisper

SpecTitle == TitleInit /\ [][NextTitle]_vars

TranscribeInit ==
    IdlePipeline /\ IdleExtract /\ IdleNormalize /\ IdleTitle /\ InitWhisper

SpecTranscribe == TranscribeInit /\ [][NextTranscribe]_vars

----------------------------------------------------------------------------
(* Properties *)

Returned == pc \in {"returned", "done"} /\ error = None

UrlSeq(s) == [k \in 1..Len(s) |-> s[k].url]

ScoresOf(s) == {s[k].score : k \in 1..Len(s)}

\* C1: the sequence find_song_from_snippet returns is sorted by score,
\* descending: any two adjacent candidates satisfy c[i].score >= c[i+1].score
C1_SortedDescending ==
    Returned =>
        \A k \in 1..(Len(results) - 1) : results[k].score >= results[k + 1].score

\* a call returned three candidates whose order the sort had to change
C1_Witness ==
    /\ Returned
    /\ Len(results) >= 3
    /\ results # candidates
    /\ Cardinality(ScoresOf(results)) >= 2

\* C2: every returned candidate's url is a url search_lyrics_pages returned
\* for this call, and there are no more candidates than pages
C2_UrlsFromSearch ==
    Returned =>
        /\ \A k \in 1..Len(results) :
              \E j \in 1..Len(pages) : results[k].url = pages[j].url
        /\ Len(results) <= Len(pages)

\* a call returned candidates for two different urls and dropped a page
C2_Witness ==
    /\ Returned
    /\ Cardinality({results[k].url : k \in 1..Len(results)}) >= 2
    /\ Len(results) < Len(pages)

\* C3: when the search backend fails, find_song_from_snippet returns the
\* empty sequence and the tool returns {best: null, alternatives: []}; no
\* error reaches the caller
C3_SearchFailureYieldsEmptyAnswer ==
    (~backend_up /\ pc = "done") =>
        /\ error = None
        /\ results = <<>>
        /\ output = Some([best |-> None, alternatives |-> <<>>])

\* the pages of plog on which fetch and extract both gave non-empty text
OkPages == SelectSeq(plog, LAMBDA e : e.html /\ e.lyrics)

CountUrl(s, u) == Cardinality({k \in 1..Len(s) : s[k].url = u})

\* C4: a fetch miss or an extraction miss never stops the loop: every page
\* is fetched, in order, and the result holds exactly one candidate for
\* each page whose fetch and extract both gave non-empty text (so none at
\* all when every fetch fails)
C4_MissesAreIsolated ==
    Returned =>
        /\ UrlSeq(plog) = UrlSeq(pages)
        /\ Len(results) = Len(OkPages)
        /\ \A j \in 1..Len(pages) :
              CountUrl(results, pages[j].url) = CountUrl(OkPages, pages[j].url)
        /\ (\A k \in 1..Len(plog) : ~plog[k].html) => results = <<>>

\* a call in which a fetch missed, an extraction missed, and a later page
\* still gave a candidate
C4_Witness ==
    /\ Returned
    /\ Len(plog) >= 3
    /\ ~plog[1].html
    /\ plog[2].html /\ ~plog[2].lyrics
    /\ plog[3].lyrics
    /\ Len(results) = 1

\* C5: no two candidates of one result have the same url, whatever the
\* stream of raw hits (a provider may repeat a url)
C5_UrlsUnique ==
    Returned =>
        \A i, j \in 1..Len(results) : i # j => results[i].url # results[j].url

\* C6: the sort is stable: candidates of equal score keep their discovery
\* order, so for every score the candidates having it appear in the result
\* as they do in the list accumulated by the loop
C6_StableOnTies ==
    Returned =>
        \A v \in ScoresOf(candidates) :
            SelectSeq(results, LAMBDA c : c.score = v)
                = SelectSeq(candidates, LAMBDA c : c.score = v)

\* two different candidates tie, and a better one was discovered after them
C6_Witness ==
    /\ Returned
    /\ Len(candidates) >= 3
    /\ candidates[1].score = candidates[2].score
    /\ candidates[1].url # candidates[2].url
    /\ candidates[3].score > candidates[1].score

\* an entry of the tool's answer shows candidate c, the score rounded to
\* two decimals
Shows(e, c) ==
    /\ e.title = c.title
    /\ e.artist = c.artist
    /\ e.url = c.url
    /\ e.match = c.lyrics_snippet
    /\ (100 * e.score - c.score) \in -50..50

\* C7: the tool answers best = null and alternatives = [] exactly when
\* find_song_from_snippet returned no candidate; otherwise best is the
\* rank-1 candidate, alternatives are the candidates of ranks 2 to 5 in
\* rank order, at most 4, and none scores higher than best
C7_BestAndAlternatives ==
    (pc = "done" /\ error = None) =>
        LET out == output[1]
        IN  /\ (results = <<>>) <=> (out.best = None /\ out.alternatives = <<>>)
            /\ results # <<>> =>
                  /\ out.best # None
                  /\ Shows(out.best[1], results[1])
                  /\ \A k \in 1..Len(results) : results[k].score <= results[1].score
                  /\ Len(out.alternatives) = Min(Len(results) - 1, 4)
                  /\ \A k \in 1..Len(out.alternatives) :
                        /\ Shows(out.alternatives[k], results[k + 1])
                        /\ out.alternatives[k].score <= out.best[1].score

\* six candidates were returned: the sixth is left out of the answer
C7_Witness ==
    /\ pc = "done"
    /\ error = None
    /\ Len(results) >= 6
    /\ Len(output[1].alternatives) = 4
    /\ output[1].alternatives[4].score < output[1].best[1].score

\* the hits of the stream with a non-empty, allow-listed url, as pairs
Qualifying(hits) ==
    LET q == SelectSeq(hits, LAMBDA r : HitUrl(r) # <<>> /\ IsLyricsHost(HitUrl(r)))
    IN  [k \in 1..Len(q) |-> [title |-> q[k].title, url |-> HitUrl(q[k])]]

\* C8: for every maxResults >= 0, search_lyrics_pages returns the first
\* maxResults qualifying hits of the stream in provider order: never more
\* than maxResults, never a url off the allow-list, fewer only when the
\* stream has fewer
C8_FirstMaxResultsQualifying ==
    (backend_up /\ pc # "start") =>
        /\ Len(pages) <= max_pages
        /\ \A k \in 1..Len(pages) : IsLyricsHost(pages[k].url)
        /\ pages = SubSeq(Qualifying(stream), 1,
                          Min(max_pages, Len(Qualifying(stream))))

\* C9: text returned from any layer but the site-specific one has at
\* least 21 words after post-processing
C9_WordFloorAfterPostProcessing ==
    (xpc = "done" /\ xout # None /\ LayerContainers(xdoc) = <<>>) =>
        WordCount(xout[1]) >= WordFloor + 1

NormalizedChars == {"a", "7", " ", "-", "'", "&"}

C11_SleepBetweenFetches == [][(plog' # plog) => ~unslept]_vars

\* C12: the four layers are tried in priority order and the first that
\* yields a block decides: the result is the post-processed longest block
\* of the highest-priority yielding layer, whatever the lower layers hold,
\* and it is absent exactly when no layer yields a block
C12_FirstYieldingLayerDecides ==
    (xpc = "done") =>
        LET layers == <<LayerContainers(xdoc), LayerArticle(xdoc),
                        LayerSelectors(xdoc), LayerParagraphs(xdoc)>>
            yielding == {n \in 1..4 : layers[n] # <<>>}
        IN  /\ (xout = None) <=> (yielding = {})
            /\ yielding # {} =>
                  LET top == CHOOSE n \in yielding : \A m \in yielding : n <= m
                      blocks == layers[top]
                  IN  \E k \in 1..Len(blocks) :
                         /\ \A j \in 1..Len(blocks) :
                               CharLen(blocks[j]) <= CharLen(blocks[k])
                         /\ xout = Some(PostProcess(blocks[k]))

\* two lyrics containers, the second the longer, and an article block
\* longer than both: the second container is returned
C12_Witness ==
    /\ xpc = "done"
    /\ Len(LayerContainers(xdoc)) = 2
    /\ CharLen(LayerContainers(xdoc)[1]) < CharLen(LayerContainers(xdoc)[2])
    /\ LayerArticle(xdoc) # <<>>
    /\ CharLen(LayerArticle(xdoc)[1]) > CharLen(LayerContainers(xdoc)[2])
    /\ xout = Some(PostProcess(LayerContainers(xdoc)[2]))

\* the parts line 152 splits the title into
PartsOf(title_text) ==
    TitleParts(CutTrailingLyrics(CutParenLyrics(CutPipe(title_text))))

\* the part contains "feat." or "ft." or the word "with", in any letter case
CreditsFeature(part) ==
    \E k \in 1..Len(part) :
        \/ part[k] \in {"with", "With", "WITH"}
        \/ /\ part[k] \in {"feat", "Feat", "FEAT", "ft", "Ft", "FT"}
           /\ k + 1 <= Len(part)
           /\ part[k + 1] = "."

\* C13: for a title of two or more parts, a feature credit in the second
\* part gives (firstPart, absent); otherwise the answer is (secondPart,
\* firstPart) when the first part does not contain "lyrics" and
\* (firstPart, secondPart) when it does
C13_FeatureCreditGivesNoArtist ==
    (tpc = "done" /\ Len(PartsOf(tin)) >= 2) =>
        LET parts == PartsOf(tin)
        IN  tout = IF CreditsFeature(parts[2]) THEN <<parts[1], None>>
                   ELSE IF ~MentionsLyrics(parts[1])
                        THEN <<parts[2], Some(parts[1])>>
                        ELSE <<parts[1], Some(parts[2])>>

\* the indices of the log entries that wrote to the transcript file name
WritersOf(name) ==
    {k \in 1..Len(wlog) :
        /\ TranscriptName(wlog[k].file) = name
        /\ wlog[k].outcome \in {"ok", "write_raised"}}

\* C14: a transcription or write failure for one file never aborts the
\* run: the function does not raise, and when it has returned every .mp3
\* file was attempted and every file that did not fail has its transcript
\* in the output directory, unless a later file wrote to the same name
C14_FailuresDoNotAbort ==
    /\ wpc # "raised"
    /\ wpc \in {"returned", "read"} =>
          \A f \in Mp3Files(folder) :
             \E k \in 1..Len(wlog) :
                /\ wlog[k].file = f
                /\ wlog[k].outcome = "ok" =>
                      /\ \E d \in out_dir : d.name = TranscriptName(f)
                      /\ (\A j \in WritersOf(TranscriptName(f)) : j <= k) =>
                            ContentOf(out_dir, TranscriptName(f)) = wlog[k].text

\* the first file failed, a later one was transcribed and its transcript
\* is in the output directory
C14_Witness ==
    /\ wpc = "returned"
    /\ Len(wlog) >= 2
    /\ wlog[1].outcome # "ok"
    /\ \E k \in 2..Len(wlog) :
          /\ wlog[k].outcome = "ok"
          /\ wlog[k].text # <<>>
          /\ [name |-> TranscriptName(wlog[k].file), content |-> wlog[k].text]
                \in out_dir

\* C15: when every transcription succeeds there is one transcript file
\* per audio file: distinct .mp3 names give distinct transcript names, and
\* from a fresh output directory as many transcripts are read back as there
\* are audio files with non-empty text
C15_OneTranscriptPerAudioFile ==
    (/\ wpc = "read"
     /\ out_dir0 = {}
     /\ \A k \in 1..Len(wlog) : wlog[k].outcome = "ok") =>
        /\ \A f, g \in Mp3Files(folder) :
              f # g => TranscriptName(f) # TranscriptName(g)
        /\ Cardinality(out_dir) = Cardinality(Mp3Files(folder))
        /\ Len(transcripts) =
              Cardinality({k \in 1..Len(wlog) : wlog[k].text # <<>>})

=============================================================================
